---- MODULE Spec2Model ----
(***************************************************************************)
(* A model of the 1inch Aggregator Inspector backend: the request handler  *)
(* of POST /api/analyze-route and the three analyzers it awaits in turn    *)
(* (OneInchAnalyzer, SimulationService, SecurityScanner).                  *)
(*                                                                         *)
(* JavaScript strings are sequences of one-character strings, so that      *)
(* toLowerCase, toUpperCase, includes, split, replace and parseInt are     *)
(* computed character by character as the engine computes them.            *)
(***************************************************************************)
EXTENDS Integers, Sequences, FiniteSets, TLC

VARIABLES
    scan,       \* one invocation of scanRouterSecurity, followed step by step
    scanLog,    \* history: the inputs and the verdict of every analysis completed so far
    unit,       \* the last call of a pure method (estimateGasForDex, parseProtocols, ...) and its result
    reqs        \* the requests to POST /api/analyze-route, each with its handler's position

vars == <<scan, scanLog, unit, reqs>>

(***************************************************************************)
(* JavaScript string primitives                                            *)
(***************************************************************************)
UpperLetters == <<"A", "B", "C", "D", "E", "F", "G", "H", "I", "J", "K", "L", "M",
                  "N", "O", "P", "Q", "R", "S", "T", "U", "V", "W", "X", "Y", "Z">>

LowerLetters == <<"a", "b", "c", "d", "e", "f", "g", "h", "i", "j", "k", "l", "m",
                  "n", "o", "p", "q", "r", "s", "t", "u", "v", "w", "x", "y", "z">>

Digits == <<"0", "1", "2", "3", "4", "5", "6", "7", "8", "9">>

IsIn(c, letters) == \E i \in 1..Len(letters) : letters[i] = c

IndexIn(c, letters) == CHOOSE i \in 1..Len(letters) : letters[i] = c

LowerChar(c) == IF IsIn(c, UpperLetters) THEN LowerLetters[IndexIn(c, UpperLetters)] ELSE c

UpperChar(c) == IF IsIn(c, LowerLetters) THEN UpperLetters[IndexIn(c, LowerLetters)] ELSE c

\* String.prototype.toLowerCase
toLowerCase(s) == [i \in 1..Len(s) |-> LowerChar(s[i])]

\* String.prototype.toUpperCase
toUpperCase(s) == [i \in 1..Len(s) |-> UpperChar(s[i])]

\* String.prototype.includes: t occurs in s as a contiguous run of characters
includes(s, t) == \E i \in 0..(Len(s) - Len(t)) : SubSeq(s, i + 1, i + Len(t)) = t

\* The concatenation of a sequence of strings
RECURSIVE Concat(_)
Concat(ss) == IF ss = <<>> THEN <<>> ELSE Head(ss) \o Concat(Tail(ss))

\* The sequences of at most n elements of S
SeqUpTo(S, n) == UNION {[1..k -> S] : k \in 0..n}

(***************************************************************************)
(* JavaScript values that reach the analyzers from upstream JSON: a string,*)
(* null/undefined, or some other truthy value that has no string methods   *)
(* (a number, an object).                                                  *)
(***************************************************************************)
JNull == [t |-> "null"]

JObj == [t |-> "obj"]

JStr(s) == [t |-> "str", v |-> s]

Truthy(x) == IF x.t = "str" THEN x.v # <<>> ELSE x.t # "null"

(***************************************************************************)
(* SecurityScanner (src/backend/services/securityScanner.js)               *)
(***************************************************************************)
op_delegatecall == <<"d", "e", "l", "e", "g", "a", "t", "e", "c", "a", "l", "l">>
op_callcode == <<"c", "a", "l", "l", "c", "o", "d", "e">>
op_selfdestruct == <<"s", "e", "l", "f", "d", "e", "s", "t", "r", "u", "c", "t">>
op_suicide == <<"s", "u", "i", "c", "i", "d", "e">>
op_create == <<"c", "r", "e", "a", "t", "e">>
op_create2 == <<"c", "r", "e", "a", "t", "e", "2">>
op_staticcall == <<"s", "t", "a", "t", "i", "c", "c", "a", "l", "l">>

\* the array dangerousOpcodes of analyzeDangerousOpcodes, in its order
dangerousOpcodes == <<op_delegatecall, op_callcode, op_selfdestruct, op_suicide,
                      op_create, op_create2, op_staticcall>>

pt_reentrancy == <<"r", "e", "e", "n", "t", "r", "a", "n", "c", "y">>
pt_unchecked == <<"u", "n", "c", "h", "e", "c", "k", "e", "d">>
pt_txorigin == <<"t", "x", ".", "o", "r", "i", "g", "i", "n">>
pt_blocktimestamp == <<"b", "l", "o", "c", "k", ".", "t", "i", "m", "e", "s", "t", "a", "m", "p">>
pt_blocknumber == <<"b", "l", "o", "c", "k", ".", "n", "u", "m", "b", "e", "r">>

\* the array securityIssues of analyzeSourceCode: pattern and description
securityIssues ==
    <<[pattern |-> pt_reentrancy, description |-> "Potential reentrancy vulnerability"],
      [pattern |-> pt_unchecked, description |-> "Unchecked arithmetic operations"],
      [pattern |-> op_delegatecall, description |-> "Dangerous delegatecall usage"],
      [pattern |-> op_selfdestruct, description |-> "Selfdestruct function present"],
      [pattern |-> op_suicide, description |-> "Suicide function present"],
      [pattern |-> pt_txorigin, description |-> "Using tx.origin instead of msg.sender"],
      [pattern |-> pt_blocktimestamp, description |-> "Using block.timestamp for randomness"],
      [pattern |-> pt_blocknumber, description |-> "Using block.number for randomness"]>>

px_eip1967 == <<"e", "i", "p", "1", "9", "6", "7">>
px_implementation == <<"_", "i", "m", "p", "l", "e", "m", "e", "n", "t", "a", "t", "i", "o", "n">>
px_admin == <<"_", "a", "d", "m", "i", "n">>
px_transparentupgradeableproxy ==
    <<"t", "r", "a", "n", "s", "p", "a", "r", "e", "n", "t", "u", "p", "g", "r", "a", "d",
      "e", "a", "b", "l", "e", "p", "r", "o", "x", "y">>
px_transparentproxy ==
    <<"t", "r", "a", "n", "s", "p", "a", "r", "e", "n", "t", "p", "r", "o", "x", "y">>
px_uups == <<"u", "u", "p", "s">>
px_upgradeable == <<"u", "p", "g", "r", "a", "d", "e", "a", "b", "l", "e">>

\* `sourceCode && sourceCode.SourceCode`: the fetched record carries source text
HasSourceCode(sourceCode) == sourceCode.t = "rec" /\ Truthy(sourceCode.SourceCode)

\* A call that ended by throwing (a TypeError: toLowerCase of a non-string)
Thrown(message) == [threw |-> TRUE, message |-> message]

Returned(value) == [threw |-> FALSE, value |-> value]

\* detectProxyPatterns as it would be if it also read its bytecode parameter
detectProxyPatterns_fromBytecode(sourceCode, bytecode) ==
    LET inBytecode == bytecode.t = "str" /\ includes(toLowerCase(bytecode.v), op_delegatecall)
    IN
    IF ~HasSourceCode(sourceCode)
    THEN Returned([isProxy |-> inBytecode, pattern |-> IF inBytecode THEN "EIP-1167" ELSE "null"])
    ELSE IF sourceCode.SourceCode.t # "str"
    THEN Thrown("sourceCode.SourceCode.toLowerCase is not a function")
    ELSE LET source == toLowerCase(sourceCode.SourceCode.v)
             eip == includes(source, px_eip1967) \/ includes(source, px_implementation)
                        \/ includes(source, px_admin)
             transparent == includes(source, px_transparentupgradeableproxy)
                                \/ includes(source, px_transparentproxy)
             uups == includes(source, px_uups) \/ includes(source, px_upgradeable)
         IN Returned([isProxy |-> eip \/ transparent \/ uups \/ inBytecode,
                      pattern |-> IF uups THEN "UUPS"
                                  ELSE IF transparent THEN "TransparentUpgradeableProxy"
                                  ELSE IF eip THEN "EIP-1967"
                                  ELSE IF inBytecode THEN "EIP-1167" ELSE "null"])

\* detectProxyPatterns: the three pattern groups, the last matching one names the pattern
detectProxyPatterns(sourceCode, bytecode) ==
    IF ~HasSourceCode(sourceCode)
    THEN Returned([isProxy |-> FALSE, pattern |-> "null"])
    ELSE IF sourceCode.SourceCode.t # "str"
    THEN Thrown("sourceCode.SourceCode.toLowerCase is not a function")
    ELSE LET source == toLowerCase(sourceCode.SourceCode.v)
             eip == includes(source, px_eip1967) \/ includes(source, px_implementation)
                        \/ includes(source, px_admin)
             transparent == includes(source, px_transparentupgradeableproxy)
                                \/ includes(source, px_transparentproxy)
             uups == includes(source, px_uups) \/ includes(source, px_upgradeable)
         IN Returned([isProxy |-> eip \/ transparent \/ uups,
                      pattern |-> IF uups THEN "UUPS"
                                  ELSE IF transparent THEN "TransparentUpgradeableProxy"
                                  ELSE IF eip THEN "EIP-1967" ELSE "null"])

\* the forEach of analyzeDangerousOpcodes over the first n entries of the array
RECURSIVE foundOpcodes(_, _)
foundOpcodes(bytecodeLower, n) ==
    IF n = 0 THEN <<>>
    ELSE LET found == foundOpcodes(bytecodeLower, n - 1)
         IN IF includes(bytecodeLower, dangerousOpcodes[n])
            THEN Append(found, dangerousOpcodes[n]) ELSE found

analyzeDangerousOpcodes_noLowerCase(bytecode) ==
    IF ~Truthy(bytecode) THEN Returned(<<>>)
    ELSE IF bytecode.t # "str" THEN Thrown("bytecode.toLowerCase is not a function")
    ELSE Returned(foundOpcodes(bytecode.v, Len(dangerousOpcodes)))

RECURSIVE lastOpcode(_, _)
lastOpcode(bytecodeLower, n) ==
    IF n = 0 THEN <<>>
    ELSE IF includes(bytecodeLower, dangerousOpcodes[n]) THEN <<dangerousOpcodes[n]>>
    ELSE lastOpcode(bytecodeLower, n - 1)

analyzeDangerousOpcodes_keepsLast(bytecode) ==
    IF ~Truthy(bytecode) THEN Returned(<<>>)
    ELSE IF bytecode.t # "str" THEN Thrown("bytecode.toLowerCase is not a function")
    ELSE Returned(lastOpcode(toLowerCase(bytecode.v), Len(dangerousOpcodes)))

\* analyzeDangerousOpcodes: the keywords found in the lower-cased bytecode text
analyzeDangerousOpcodes(bytecode) ==
    IF ~Truthy(bytecode) THEN Returned(<<>>)
    ELSE IF bytecode.t # "str" THEN Thrown("bytecode.toLowerCase is not a function")
    ELSE Returned(foundOpcodes(toLowerCase(bytecode.v), Len(dangerousOpcodes)))

\* the forEach of analyzeSourceCode over the first n entries of securityIssues
RECURSIVE foundIssues(_, _)
foundIssues(source, n) ==
    IF n = 0 THEN <<>>
    ELSE LET issues == foundIssues(source, n - 1)
         IN IF includes(source, securityIssues[n].pattern)
            THEN Append(issues, securityIssues[n].description) ELSE issues

\* analyzeSourceCode: called with the source text, a string
analyzeSourceCode(sourceText) ==
    [issues |-> foundIssues(toLowerCase(sourceText), Len(securityIssues))]

getRiskLevel_strict(riskScore) ==
    IF riskScore > 80 THEN "CRITICAL"
    ELSE IF riskScore > 60 THEN "HIGH"
    ELSE IF riskScore > 40 THEN "MEDIUM"
    ELSE IF riskScore > 20 THEN "LOW"
    ELSE "SAFE"

\* getRiskLevel
getRiskLevel(riskScore) ==
    IF riskScore >= 80 THEN "CRITICAL"
    ELSE IF riskScore >= 60 THEN "HIGH"
    ELSE IF riskScore >= 40 THEN "MEDIUM"
    ELSE IF riskScore >= 20 THEN "LOW"
    ELSE "SAFE"

\* a risk factor: its text, and the number the template string interpolates
Factor(msg, n) == [msg |-> msg, n |-> n]

\* getDefaultSecurityReport(error)
getDefaultSecurityReport(error) ==
    [address |-> "Unknown", isVerified |-> FALSE, isProxy |-> FALSE,
     riskScore |-> 50, riskLevel |-> "MEDIUM",
     riskFactors |-> <<Factor("Unable to analyze contract", 0)>>,
     dangerousOpcodes |-> <<>>, issues |-> <<>>, error |-> error]

Contains(seq, x) == \E i \in 1..Len(seq) : seq[i] = x

newAnalysis_carried(address) ==
    [address |-> address, isVerified |-> FALSE, isProxy |-> FALSE,
     riskScore |-> IF scanLog = <<>> THEN 0 ELSE scanLog[Len(scanLog)].riskScore,
     riskLevel |-> "undefined", riskFactors |-> <<>>,
     dangerousOpcodes |-> <<>>, issues |-> <<>>]

\* the object literal `analysis` that analyzeContractSecurity starts from
newAnalysis(address) ==
    [address |-> address, isVerified |-> FALSE, isProxy |-> FALSE,
     riskScore |-> 0, riskLevel |-> "undefined", riskFactors |-> <<>>,
     dangerousOpcodes |-> <<>>, issues |-> <<>>]

\* analyzeContractSecurity, check by check in the order of the code
analyzeContractSecurity(address, sourceCode, bytecode) ==
    LET a0 == newAnalysis(address)
        verified == HasSourceCode(sourceCode)
        a1 == IF verified
              THEN [a0 EXCEPT !.isVerified = TRUE]
              ELSE [a0 EXCEPT !.riskScore = @ + 20,
                              !.riskFactors = Append(@, Factor("Contract not verified", 0))]
        proxyPatterns == detectProxyPatterns(sourceCode, bytecode)
    IN  IF proxyPatterns.threw THEN proxyPatterns
        ELSE
        LET a2 == IF proxyPatterns.value.isProxy
                  THEN [a1 EXCEPT !.isProxy = TRUE,
                                  !.riskScore = @ + 10,
                                  !.riskFactors = Append(@, Factor("Contract uses proxy pattern", 0))]
                  ELSE a1
            opcodes == analyzeDangerousOpcodes(bytecode)
        IN  IF opcodes.threw THEN opcodes
            ELSE
            LET found == opcodes.value
                a3 == IF Len(found) > 0
                      THEN [a2 EXCEPT !.dangerousOpcodes = found,
                                      !.riskScore = @ + Len(found) * 15,
                                      !.riskFactors = Append(@, Factor("Contains n dangerous opcodes", Len(found)))]
                      ELSE a2
                a4 == IF Contains(found, op_delegatecall)
                      THEN [a3 EXCEPT !.riskScore = @ + 25,
                                      !.riskFactors = Append(@, Factor("Uses delegatecall - high risk", 0))]
                      ELSE a3
                a5 == IF Contains(found, op_selfdestruct)
                      THEN [a4 EXCEPT !.riskScore = @ + 30,
                                      !.riskFactors = Append(@, Factor("Contains selfdestruct - critical risk", 0))]
                      ELSE a4
                issues == IF verified THEN analyzeSourceCode(sourceCode.SourceCode.v).issues ELSE <<>>
                a6 == IF verified /\ Len(issues) > 0
                      THEN [a5 EXCEPT !.issues = issues,
                                      !.riskScore = @ + Len(issues) * 5,
                                      !.riskFactors = Append(@, Factor("Source code has n potential issues", Len(issues)))]
                      ELSE a5
            IN  Returned([a6 EXCEPT !.riskLevel = getRiskLevel(a6.riskScore)])

\* An Etherscan answer: the request failed (network error, non-2xx status), or a body
HttpError == [kind |-> "error"]

SourceBody(status, result) == [kind |-> "ok", status |-> status, result |-> result]

BytecodeBody(result) == [kind |-> "ok", result |-> result]

SourceRecord(text) == [t |-> "rec", SourceCode |-> text]

\* getContractSourceCode: result[0] of a status '1' answer, null otherwise and on failure
getContractSourceCode(response) ==
    IF response.kind = "error" THEN JNull
    ELSE IF response.status = "1" /\ Len(response.result) > 0 THEN response.result[1]
    ELSE JNull

\* getContractBytecode: the result field, null on failure
getContractBytecode(response) ==
    IF response.kind = "error" THEN JNull ELSE response.result

\* `!routerAddress`
AddressMissing(routerAddress) == routerAddress \in {"", "undefined"}

\* completeScan as it would be if the score were capped at 100
completeScan_clamped(routerAddress, sourceCode, bytecode) ==
    LET securityAnalysis == analyzeContractSecurity(routerAddress, sourceCode, bytecode)
    IN  IF securityAnalysis.threw
        THEN getDefaultSecurityReport(securityAnalysis.message)
        ELSE [securityAnalysis.value EXCEPT !.riskScore = IF @ > 100 THEN 100 ELSE @]

\* scanRouterSecurity from the bytecode answer on: analyse, and on a throw the default report
completeScan(routerAddress, sourceCode, bytecode) ==
    LET securityAnalysis == analyzeContractSecurity(routerAddress, sourceCode, bytecode)
    IN  IF securityAnalysis.threw
        THEN getDefaultSecurityReport(securityAnalysis.message)
        ELSE securityAnalysis.value

(***************************************************************************)
(* JavaScript numbers as far as parseInt and the percent sum need them:    *)
(* an integer or NaN.                                                      *)
(***************************************************************************)
NaN == [nan |-> TRUE, n |-> 0]

Num(n) == [nan |-> FALSE, n |-> n]

\* a + b of two numbers
Plus(a, b) == IF a.nan \/ b.nan THEN NaN ELSE Num(a.n + b.n)

HexLetters == <<"a", "b", "c", "d", "e", "f">>

\* the value of character c as a digit of the radix, -1 when it is none
DigitValue(c, radix) ==
    IF IsIn(c, Digits) THEN IndexIn(c, Digits) - 1
    ELSE IF radix = 16 /\ IsIn(LowerChar(c), HexLetters) THEN 9 + IndexIn(LowerChar(c), HexLetters)
    ELSE -1

\* the longest run of digits at the start of s, read in the radix; NaN when there is none
RECURSIVE ParseDigits(_, _, _, _)
ParseDigits(s, radix, acc, any) ==
    IF s # <<>> /\ DigitValue(Head(s), radix) >= 0
    THEN ParseDigits(Tail(s), radix, acc * radix + DigitValue(Head(s), radix), TRUE)
    ELSE IF any THEN Num(acc) ELSE NaN

RECURSIVE SkipSpaces(_)
SkipSpaces(s) == IF s # <<>> /\ Head(s) = " " THEN SkipSpaces(Tail(s)) ELSE s

\* parseInt(string) without a radix: leading blanks, a sign, a 0x prefix, digits
parseInt(str) ==
    LET s0 == SkipSpaces(str)
        negative == s0 # <<>> /\ Head(s0) = "-"
        s1 == IF s0 # <<>> /\ Head(s0) \in {"+", "-"} THEN Tail(s0) ELSE s0
        hex == Len(s1) >= 2 /\ s1[1] = "0" /\ s1[2] \in {"x", "X"}
        magnitude == IF hex THEN ParseDigits(Tail(Tail(s1)), 16, 0, FALSE)
                     ELSE ParseDigits(s1, 10, 0, FALSE)
    IN  IF magnitude.nan THEN NaN
        ELSE IF negative THEN Num(0 - magnitude.n) ELSE magnitude

\* String.prototype.split(separator) for a one-character separator
RECURSIVE split(_, _)
split(s, separator) ==
    IF \E i \in 1..Len(s) : s[i] = separator
    THEN LET i == CHOOSE j \in 1..Len(s) :
                     s[j] = separator /\ \A k \in 1..(j - 1) : s[k] # separator
         IN <<SubSeq(s, 1, i - 1)>> \o split(SubSeq(s, i + 1, Len(s)), separator)
    ELSE <<s>>

(***************************************************************************)
(* SimulationService.estimateGasForDex                                     *)
(* (src/backend/services/simulationService.js)                             *)
(***************************************************************************)
\* the object literal gasEstimates, its keys in insertion order
gasEstimates ==
    <<[key |-> <<"U", "N", "I", "S", "W", "A", "P", "_", "V", "3">>, gas |-> 150000],
      [key |-> <<"U", "N", "I", "S", "W", "A", "P", "_", "V", "2">>, gas |-> 180000],
      [key |-> <<"S", "U", "S", "H", "I", "S", "W", "A", "P">>, gas |-> 180000],
      [key |-> <<"B", "A", "L", "A", "N", "C", "E", "R">>, gas |-> 200000],
      [key |-> <<"C", "U", "R", "V", "E">>, gas |-> 120000],
      [key |-> <<"P", "A", "N", "C", "A", "K", "E", "S", "W", "A", "P">>, gas |-> 160000],
      [key |-> <<"D", "O", "D", "O">>, gas |-> 140000],
      [key |-> <<"1", "I", "N", "C", "H">>, gas |-> 160000],
      [key |-> <<"P", "A", "R", "A", "S", "W", "A", "P">>, gas |-> 170000],
      [key |-> <<"0", "X">>, gas |-> 150000],
      [key |-> <<"K", "Y", "B", "E", "R">>, gas |-> 160000],
      [key |-> <<"B", "A", "N", "C", "O", "R">>, gas |-> 190000],
      [key |-> <<"O", "A", "S", "I", "S">>, gas |-> 140000],
      [key |-> <<"I", "D", "E", "X">>, gas |-> 130000],
      [key |-> <<"A", "I", "R", "S", "W", "A", "P">>, gas |-> 120000],
      [key |-> <<"0", "X", "_", "V", "2">>, gas |-> 150000],
      [key |-> <<"0", "X", "_", "V", "3">>, gas |-> 140000],
      [key |-> <<"0", "X", "_", "V", "4">>, gas |-> 130000],
      [key |-> <<"A", "M", "M">>, gas |-> 170000],
      [key |-> <<"P", "M", "M">>, gas |-> 140000],
      [key |-> <<"R", "F", "Q">>, gas |-> 120000],
      [key |-> <<"C", "H", "A", "I">>, gas |-> 160000],
      [key |-> <<"C", "O", "M", "P", "O", "U", "N", "D">>, gas |-> 200000],
      [key |-> <<"A", "A", "V", "E">>, gas |-> 220000],
      [key |-> <<"M", "A", "K", "E", "R">>, gas |-> 180000],
      [key |-> <<"Y", "I", "E", "L", "D">>, gas |-> 190000],
      [key |-> <<"d", "e", "f", "a", "u", "l", "t">>, gas |-> 170000]>>

key_default == <<"d", "e", "f", "a", "u", "l", "t">>

\* gasEstimates[name]: the value under the key, 0 (undefined, falsy) when there is none
gasEstimatesAt(name) ==
    IF \E i \in 1..Len(gasEstimates) : gasEstimates[i].key = name
    THEN gasEstimates[CHOOSE i \in 1..Len(gasEstimates) : gasEstimates[i].key = name].gas
    ELSE 0

\* s.replace(/[_V\d]+/g, ''): every run of underscores, V's and digits is removed
RECURSIVE removeVersionChars(_)
removeVersionChars(s) ==
    IF s = <<>> THEN <<>>
    ELSE IF Head(s) \in {"_", "V"} \/ IsIn(Head(s), Digits) THEN removeVersionChars(Tail(s))
    ELSE <<Head(s)>> \o removeVersionChars(Tail(s))

\* s.replace(/[^A-Z0-9]/g, ''): every character that is no capital and no digit is removed
RECURSIVE removeSpecialChars(_)
removeSpecialChars(s) ==
    IF s = <<>> THEN <<>>
    ELSE IF IsIn(Head(s), UpperLetters) \/ IsIn(Head(s), Digits)
    THEN <<Head(s)>> \o removeSpecialChars(Tail(s))
    ELSE removeSpecialChars(Tail(s))

\* const normalizedName
normalizedName(dexName) == removeSpecialChars(removeVersionChars(toUpperCase(dexName)))

partialMatch_lastKey(upperName, i) ==
    LET hits == {j \in 1..Len(gasEstimates) :
                    gasEstimates[j].key # key_default /\ includes(upperName, gasEstimates[j].key)}
    IN IF hits = {} THEN gasEstimatesAt(key_default)
       ELSE gasEstimates[CHOOSE j \in hits : \A k \in hits : k <= j].gas

\* the loop over Object.entries(gasEstimates) from entry i on, then the default
RECURSIVE partialMatch(_, _)
partialMatch(upperName, i) ==
    IF i > Len(gasEstimates) THEN gasEstimatesAt(key_default)
    ELSE IF gasEstimates[i].key # key_default /\ includes(upperName, gasEstimates[i].key)
    THEN gasEstimates[i].gas
    ELSE partialMatch(upperName, i + 1)

estimateGasForDex_noPartialMatch(dexName) ==
    IF gasEstimatesAt(toUpperCase(dexName)) # 0 THEN gasEstimatesAt(toUpperCase(dexName))
    ELSE IF gasEstimatesAt(normalizedName(dexName)) # 0 THEN gasEstimatesAt(normalizedName(dexName))
    ELSE gasEstimatesAt(key_default)

\* estimateGasForDex
estimateGasForDex(dexName) ==
    IF gasEstimatesAt(toUpperCase(dexName)) # 0 THEN gasEstimatesAt(toUpperCase(dexName))
    ELSE IF gasEstimatesAt(normalizedName(dexName)) # 0 THEN gasEstimatesAt(normalizedName(dexName))
    ELSE partialMatch(toUpperCase(dexName), 1)

(***************************************************************************)
(* SimulationService.parseFoundryOutput and fallbackSlippageAnalysis       *)
(* Slippage values are JavaScript floats; they are kept as fractions.      *)
(***************************************************************************)
Rat(num, den) == [num |-> num, den |-> den]

RECURSIVE Gcd(_, _)
Gcd(a, b) == IF b = 0 THEN a ELSE Gcd(b, a % b)

\* the same value in lowest terms (a float holds the value, not a numerator and denominator)
Lowest(r) == LET g == Gcd(r.num, r.den) IN IF g = 0 THEN r ELSE Rat(r.num \div g, r.den \div g)

\* a + b of two fractions
RatPlus(a, b) == Lowest(Rat(a.num * b.den + b.num * a.den, a.den * b.den))

\* a * b of two fractions
RatTimes(a, b) == Lowest(Rat(a.num * b.num, a.den * b.den))

re_GasUsed == <<"G", "a", "s", " ", "u", "s", "e", "d", ":", " ">>
re_Slippage == <<"S", "l", "i", "p", "p", "a", "g", "e", " ", "(", "b", "a", "s", "i", "s", " ",
                 "p", "o", "i", "n", "t", "s", ")", ":", " ">>
re_Hop == <<"H", "o", "p", " ">>
re_ColonSpace == <<":", " ">>

\* the literal occurs in the text at position i
MatchAt(text, i, literal) ==
    i + Len(literal) - 1 <= Len(text) /\ SubSeq(text, i, i + Len(literal) - 1) = literal

\* the length of the run of digits (\d+) that starts at position i
RECURSIVE digitRun(_, _)
digitRun(text, i) ==
    IF i <= Len(text) /\ IsIn(text[i], Digits) THEN 1 + digitRun(text, i + 1) ELSE 0

\* the length of the run of characters other than a newline ([^\n]+) that starts at i
RECURSIVE lineRun(_, _)
lineRun(text, i) ==
    IF i <= Len(text) /\ text[i] # "\n" THEN 1 + lineRun(text, i + 1) ELSE 0

\* output.match(/<literal>(\d+)/): the digits of the first match, <<>> when none matches
firstNumberAfter(output, literal) ==
    LET hits == {i \in 1..Len(output) :
                    MatchAt(output, i, literal) /\ digitRun(output, i + Len(literal)) > 0}
    IN IF hits = {} THEN <<>>
       ELSE LET i == CHOOSE j \in hits : \A k \in hits : j <= k
            IN SubSeq(output, i + Len(literal),
                      i + Len(literal) + digitRun(output, i + Len(literal)) - 1)

\* output.matchAll(/Hop (\d+): ([^\n]+)/g) from position i on: the two groups of each match
RECURSIVE hopMatches(_, _)
hopMatches(output, i) ==
    IF i > Len(output) THEN <<>>
    ELSE LET d == digitRun(output, i + Len(re_Hop))
             nameAt == i + Len(re_Hop) + d + Len(re_ColonSpace)
         IN IF /\ MatchAt(output, i, re_Hop)
               /\ d > 0
               /\ MatchAt(output, i + Len(re_Hop) + d, re_ColonSpace)
               /\ lineRun(output, nameAt) > 0
            THEN <<[index |-> SubSeq(output, i + Len(re_Hop), i + Len(re_Hop) + d - 1),
                    name |-> SubSeq(output, nameAt, nameAt + lineRun(output, nameAt) - 1)]>>
                 \o hopMatches(output, nameAt + lineRun(output, nameAt))
            ELSE hopMatches(output, i + 1)

parseFoundryOutput_measuredGas(output) ==
    LET gasMatch == firstNumberAfter(output, re_GasUsed)
        slippageMatch == firstNumberAfter(output, re_Slippage)
        gasUsed == IF gasMatch # <<>> THEN parseInt(gasMatch).n ELSE 0
        slippage == IF slippageMatch # <<>> THEN parseInt(slippageMatch).n ELSE 0
        hops == hopMatches(output, 1)
    IN  [perHopSlippage |-> [k \in 1..Len(hops) |->
                               [hop |-> parseInt(hops[k].index).n, dex |-> hops[k].name,
                                slippage |-> Rat(slippage, parseInt(hops[k].index).n + 1)]],
         gasEstimates |-> [k \in 1..Len(hops) |->
                             [hop |-> parseInt(hops[k].index).n, dex |-> hops[k].name,
                              gas |-> gasUsed]],
         totalSlippage |-> Rat(slippage, 1),
         totalGas |-> gasUsed]

parseFoundryOutput_byPosition(output) ==
    LET gasMatch == firstNumberAfter(output, re_GasUsed)
        slippageMatch == firstNumberAfter(output, re_Slippage)
        gasUsed == IF gasMatch # <<>> THEN parseInt(gasMatch).n ELSE 0
        slippage == IF slippageMatch # <<>> THEN parseInt(slippageMatch).n ELSE 0
        hops == hopMatches(output, 1)
    IN  [perHopSlippage |-> [k \in 1..Len(hops) |->
                               [hop |-> parseInt(hops[k].index).n, dex |-> hops[k].name,
                                slippage |-> Rat(slippage, k)]],
         gasEstimates |-> [k \in 1..Len(hops) |->
                             [hop |-> parseInt(hops[k].index).n, dex |-> hops[k].name,
                              gas |-> estimateGasForDex(hops[k].name)]],
         totalSlippage |-> Rat(slippage, 1),
         totalGas |-> gasUsed]

\* parseFoundryOutput
parseFoundryOutput(output) ==
    LET gasMatch == firstNumberAfter(output, re_GasUsed)
        slippageMatch == firstNumberAfter(output, re_Slippage)
        gasUsed == IF gasMatch # <<>> THEN parseInt(gasMatch).n ELSE 0
        slippage == IF slippageMatch # <<>> THEN parseInt(slippageMatch).n ELSE 0
        hops == hopMatches(output, 1)
    IN  [perHopSlippage |-> [k \in 1..Len(hops) |->
                               [hop |-> parseInt(hops[k].index).n, dex |-> hops[k].name,
                                slippage |-> Rat(slippage, parseInt(hops[k].index).n + 1)]],
         gasEstimates |-> [k \in 1..Len(hops) |->
                             [hop |-> parseInt(hops[k].index).n, dex |-> hops[k].name,
                              gas |-> estimateGasForDex(hops[k].name)]],
         totalSlippage |-> Rat(slippage, 1),
         totalGas |-> gasUsed]

\* perHopSlippage.reduce((sum, hop) => sum + hop.slippage, 0)
RECURSIVE sumSlippage(_)
sumSlippage(perHop) ==
    IF perHop = <<>> THEN Rat(0, 1)
    ELSE RatPlus(sumSlippage(SubSeq(perHop, 1, Len(perHop) - 1)), perHop[Len(perHop)].slippage)

fallbackSlippageAnalysis_wide(routeAnalysis, randoms) ==
    LET protocols == routeAnalysis.routeBreakdown.protocols
        perHopSlippage == [k \in 1..Len(protocols) |->
                             [hop |-> k - 1, dex |-> protocols[k].dex,
                              slippage |-> RatPlus(RatTimes(randoms[k], Rat(60, 1)), Rat(10, 1)),
                              estimated |-> TRUE]]
    IN  [perHopSlippage |-> perHopSlippage,
         gasEstimates |-> [k \in 1..Len(protocols) |->
                             [hop |-> k - 1, dex |-> protocols[k].dex,
                              gas |-> estimateGasForDex(protocols[k].dex)]],
         totalSlippage |-> sumSlippage(perHopSlippage),
         fallback |-> TRUE]

\* fallbackSlippageAnalysis; randoms[k] is the value Math.random() returns for hop k
fallbackSlippageAnalysis(routeAnalysis, randoms) ==
    LET protocols == routeAnalysis.routeBreakdown.protocols
        perHopSlippage == [k \in 1..Len(protocols) |->
                             [hop |-> k - 1, dex |-> protocols[k].dex,
                              slippage |-> RatPlus(RatTimes(randoms[k], Rat(50, 1)), Rat(10, 1)),
                              estimated |-> TRUE]]
    IN  [perHopSlippage |-> perHopSlippage,
         gasEstimates |-> [k \in 1..Len(protocols) |->
                             [hop |-> k - 1, dex |-> protocols[k].dex,
                              gas |-> estimateGasForDex(protocols[k].dex)]],
         totalSlippage |-> sumSlippage(perHopSlippage),
         fallback |-> TRUE]

\* how the forge process ended: its stdout, or the error execAsync rejects with (the
\* process could not start or exited non-zero, or the 30 s timeout killed it)
ForgeOutput(stdout) == [kind |-> "ok", stdout |-> stdout]

ForgeFailed == [kind |-> "error", message |-> "Command failed: forge test"]

ForgeTimedOut == [kind |-> "timeout", message |-> "Command failed: forge test (killed)"]

\* runFoundrySimulation once execAsync has settled
runFoundrySimulation(settled) ==
    IF settled.kind # "ok" THEN Thrown("Simulation failed: " \o settled.message)
    ELSE Returned(parseFoundryOutput(settled.stdout))

simulateSwap_timeoutAsOutput(routeAnalysis, settled, randoms) ==
    LET simulationResult == runFoundrySimulation(settled)
    IN  IF settled.kind = "timeout"
        THEN [success |-> TRUE, perHopSlippage |-> <<>>, gasEstimates |-> <<>>,
              totalSlippage |-> Rat(0, 1)]
        ELSE IF simulationResult.threw
        THEN [success |-> FALSE, error |-> simulationResult.message,
              fallbackAnalysis |-> fallbackSlippageAnalysis(routeAnalysis, randoms)]
        ELSE [success |-> TRUE,
              perHopSlippage |-> simulationResult.value.perHopSlippage,
              gasEstimates |-> simulationResult.value.gasEstimates,
              totalSlippage |-> simulationResult.value.totalSlippage]

\* simulateSwap once execAsync has settled
simulateSwap(routeAnalysis, settled, randoms) ==
    LET simulationResult == runFoundrySimulation(settled)
    IN  IF simulationResult.threw
        THEN [success |-> FALSE, error |-> simulationResult.message,
              fallbackAnalysis |-> fallbackSlippageAnalysis(routeAnalysis, randoms)]
        ELSE [success |-> TRUE,
              perHopSlippage |-> simulationResult.value.perHopSlippage,
              gasEstimates |-> simulationResult.value.gasEstimates,
              totalSlippage |-> simulationResult.value.totalSlippage]

(***************************************************************************)
(* OneInchAnalyzer.parseProtocols and calculateRouteBreakdown              *)
(* (src/unnamed/part_001)                                                  *)
(***************************************************************************)
JArr(entries) == [t |-> "arr", items |-> entries]

\* the for-of loop of parseProtocols over the entries; a entry without split throws
RECURSIVE parseEntries(_, _)
parseEntries(entries, parsed) ==
    IF entries = <<>> THEN Returned(parsed)
    ELSE LET protocol == Head(entries)
         IN IF protocol.t # "str" THEN Thrown("protocol.split is not a function")
            ELSE LET parts == split(protocol.v, "-")
                 IN IF Len(parts) >= 2
                    THEN parseEntries(Tail(entries),
                                      Append(parsed, [dex |-> parts[1],
                                                      percent |-> parseInt(parts[2]),
                                                      index |-> Len(parsed)]))
                    ELSE parseEntries(Tail(entries), parsed)

\* parseProtocols; for-of over a string iterates its characters
parseProtocols(protocols) ==
    IF ~Truthy(protocols) THEN Returned(<<>>)
    ELSE IF protocols.t = "str"
    THEN parseEntries([k \in 1..Len(protocols.v) |-> JStr(<<protocols.v[k]>>)], <<>>)
    ELSE IF protocols.t # "arr" THEN Thrown("protocols is not iterable")
    ELSE parseEntries(protocols.items, <<>>)

\* protocols.reduce((sum, p) => sum + p.percent, 0)
RECURSIVE sumPercent(_)
sumPercent(protocols) ==
    IF protocols = <<>> THEN Num(0)
    ELSE Plus(sumPercent(SubSeq(protocols, 1, Len(protocols) - 1)),
              protocols[Len(protocols)].percent)

\* calculateRouteBreakdown
calculateRouteBreakdown(swapData) ==
    IF swapData.t # "rec" THEN Thrown("Cannot read properties of null (reading 'protocols')")
    ELSE
    LET protocols == parseProtocols(swapData.protocols)
    IN  IF protocols.threw THEN protocols
        ELSE Returned([protocols |-> protocols.value,
                       totalPercent |-> sumPercent(protocols.value),
                       routeCount |-> Len(protocols.value),
                       estimatedGas |-> IF swapData.tx.t = "rec" THEN swapData.tx.gas ELSE 0])

(***************************************************************************)
(* OneInchAnalyzer.analyze1inchRoute (src/unnamed/part_001)                *)
(***************************************************************************)
\* the tx object of a swap answer
TxRecord(to, gas) == [t |-> "rec", to |-> to, gas |-> gas]

\* response.data of the swap call
SwapData(protocols, tx) == [t |-> "rec", protocols |-> protocols, tx |-> tx]

RouterAddress == "0x1111111254EEB25477B68fb85Ed929f73A960582"

mk_UNISWAP_V3 == <<"U", "N", "I", "S", "W", "A", "P", "_", "V", "3">>
mk_SUSHISWAP == <<"S", "U", "S", "H", "I", "S", "W", "A", "P">>
mk_UNISWAP_V3_60 == <<"U", "N", "I", "S", "W", "A", "P", "_", "V", "3", "-", "6", "0">>
mk_SUSHISWAP_40 == <<"S", "U", "S", "H", "I", "S", "W", "A", "P", "-", "4", "0">>

\* getMockRouteAnalysis (its tx.gas is the string '150000'; kept as the number)
getMockRouteAnalysis(fromToken, toToken, amount, fromAddress) ==
    [quote |-> "mock quote",
     tx |-> TxRecord(RouterAddress, 150000),
     routeBreakdown |-> [protocols |-> <<[dex |-> mk_UNISWAP_V3, percent |-> Num(60), index |-> 0],
                                         [dex |-> mk_SUSHISWAP, percent |-> Num(40), index |-> 1]>>,
                         totalPercent |-> Num(100),
                         routeCount |-> 2,
                         estimatedGas |-> 150000],
     protocols |-> JArr(<<JStr(mk_UNISWAP_V3_60), JStr(mk_SUSHISWAP_40)>>),
     fromToken |-> fromToken, toToken |-> toToken, amount |-> amount]

analyze1inchRoute_rethrows(body, swapSettled) ==
    IF swapSettled.kind = "error"
    THEN Thrown("Failed to get swap transaction")
    ELSE LET routeBreakdown == calculateRouteBreakdown(swapSettled.data)
         IN IF routeBreakdown.threw
            THEN Thrown(routeBreakdown.message)
            ELSE Returned([quote |-> "quoteData",
                           tx |-> swapSettled.data.tx,
                           routeBreakdown |-> routeBreakdown.value,
                           protocols |-> swapSettled.data.protocols,
                           fromToken |-> "swapData.fromToken", toToken |-> "swapData.toToken",
                           amount |-> "swapData.amount"])

\* analyze1inchRoute from the settling of getSwapTx on: the analysis of the swap answer,
\* or the mock analysis when the call failed or the answer could not be parsed
analyze1inchRoute(body, swapSettled) ==
    IF swapSettled.kind = "error"
    THEN Returned(getMockRouteAnalysis(body.fromToken, body.toToken, body.amount, body.fromAddress))
    ELSE LET routeBreakdown == calculateRouteBreakdown(swapSettled.data)
         IN IF routeBreakdown.threw
            THEN Returned(getMockRouteAnalysis(body.fromToken, body.toToken, body.amount,
                                               body.fromAddress))
            ELSE Returned([quote |-> "quoteData",
                           tx |-> swapSettled.data.tx,
                           routeBreakdown |-> routeBreakdown.value,
                           protocols |-> swapSettled.data.protocols,
                           fromToken |-> "swapData.fromToken", toToken |-> "swapData.toToken",
                           amount |-> "swapData.amount"])

\* a 1inch answer: the request failed (network error, non-2xx status), or a body
SwapAnswer(data) == [kind |-> "ok", data |-> data]

Requests == {"r1", "r2"}

NoRequest == [pc |-> "none"]

UnitIdle == [op |-> "none"]

(***************************************************************************)
(* The Etherscan answers a scan may receive.  Texts are concatenations of  *)
(* a few fragments, so that keywords meet, overlap and change case.        *)
(***************************************************************************)
MaxBytecodeFrags == 2

MaxSourceFrags == 1

bc_plain == <<"0", "x", "6", "0", "8", "0">>
bc_DelegateCall == <<"D", "e", "l", "e", "g", "a", "t", "e", "C", "a", "l", "l">>
bc_SELFDESTRUCT == <<"S", "E", "L", "F", "D", "E", "S", "T", "R", "U", "C", "T">>
bc_two == <<"2">>

BytecodeFrags == {bc_plain, bc_DelegateCall, bc_SELFDESTRUCT, bc_two, op_delegatecall,
                  op_callcode, op_suicide, op_create, op_staticcall}

BytecodeTexts == {Concat(ss) : ss \in SeqUpTo(BytecodeFrags, MaxBytecodeFrags)}

sc_plain == <<"c", "o", "n", "t", "r", "a", "c", "t", " ", "R", "{", "}">>
sc_Reentrancy == <<"R", "e", "e", "n", "t", "r", "a", "n", "c", "y", "G", "u", "a", "r", "d">>
sc_Transparent == <<"T", "r", "a", "n", "s", "p", "a", "r", "e", "n", "t">>
sc_Proxy == <<"P", "r", "o", "x", "y">>
sc_blockdot == <<"b", "l", "o", "c", "k", ".">>
sc_number == <<"n", "u", "m", "b", "e", "r">>

SourceFrags == {sc_plain, sc_Reentrancy, sc_Transparent \o sc_Proxy, sc_blockdot, sc_number,
                sc_blockdot \o sc_number, pt_txorigin \o pt_unchecked, op_suicide,
                op_selfdestruct \o px_admin, toUpperCase(px_upgradeable),
                pt_blocktimestamp \o op_delegatecall \o px_uups}

SourceTexts == {Concat(ss) : ss \in SeqUpTo(SourceFrags, MaxSourceFrags)}

SourceResponses ==
    {HttpError, SourceBody("0", <<>>), SourceBody("1", <<>>), SourceBody("1", <<SourceRecord(JObj)>>)}
        \cup {SourceBody("1", <<SourceRecord(JStr(text))>>) : text \in SourceTexts}

BytecodeResponses ==
    {HttpError, BytecodeBody(JNull), BytecodeBody(JObj)}
        \cup {BytecodeBody(JStr(text)) : text \in BytecodeTexts}

ScanIdle == [pc |-> "idle"]

\* scanRouterSecurity is called: without an address it returns the default report at once
ScanCall(routerAddress) ==
    /\ scan.pc \in {"idle", "returned"}
    /\ scan' = IF AddressMissing(routerAddress)
               THEN [pc |-> "returned", address |-> routerAddress, fetched |-> FALSE,
                     report |-> getDefaultSecurityReport("null")]
               ELSE [pc |-> "source", address |-> routerAddress]
    /\ UNCHANGED <<scanLog, unit, reqs>>

\* the getsourcecode request settles
ScanSourceSettled(response) ==
    /\ scan.pc = "source"
    /\ scan' = [pc |-> "bytecode", address |-> scan.address, sourceResponse |-> response,
                sourceCode |-> getContractSourceCode(response)]
    /\ UNCHANGED <<scanLog, unit, reqs>>

\* the eth_getCode request settles; the analysis runs and the scan returns
ScanBytecodeSettled(response) ==
    /\ scan.pc = "bytecode"
    /\ LET bytecode == getContractBytecode(response)
       IN scan' = [pc |-> "returned", address |-> scan.address, fetched |-> TRUE,
                   sourceResponse |-> scan.sourceResponse, bytecodeResponse |-> response,
                   sourceCode |-> scan.sourceCode, bytecode |-> bytecode,
                   report |-> completeScan(scan.address, scan.sourceCode, bytecode)]
    /\ UNCHANGED <<scanLog, unit, reqs>>

\* The same contract is scanned again after its bytecode text has gained one of the
\* dangerous-opcode keywords, at its end (atEnd) or at its start
ScanWithAddedOpcode(opcode, atEnd) ==
    /\ scan.pc = "returned" /\ scan.fetched
    /\ scan.bytecode.t = "str"
    /\ LET text == IF atEnd THEN scan.bytecode.v \o opcode ELSE opcode \o scan.bytecode.v
           bytecode == getContractBytecode(BytecodeBody(JStr(text)))
       IN /\ text \in BytecodeTexts
          /\ scan' = [scan EXCEPT !.bytecodeResponse = BytecodeBody(JStr(text)),
                                  !.bytecode = bytecode,
                                  !.report = completeScan(scan.address, scan.sourceCode, bytecode)]
    /\ UNCHANGED <<scanLog, unit, reqs>>

ScanInit ==
    /\ scan = ScanIdle
    /\ scanLog = <<>>
    /\ unit = UnitIdle
    /\ reqs = [r \in Requests |-> NoRequest]

ScanNext ==
    \/ \E routerAddress \in {"", RouterAddress} : ScanCall(routerAddress)
    \/ \E response \in SourceResponses : ScanSourceSettled(response)
    \/ \E response \in BytecodeResponses : ScanBytecodeSettled(response)
    \/ \E i \in 1..Len(dangerousOpcodes), atEnd \in BOOLEAN :
           ScanWithAddedOpcode(dangerousOpcodes[i], atEnd)

ScanSpec == ScanInit /\ [][ScanNext]_vars

(***************************************************************************)
(* The pure methods called one at a time on bounded inputs.                *)
(***************************************************************************)
MaxNameFrags == 2

MaxProtocols == 2

dx_UNISWAP == <<"U", "N", "I", "S", "W", "A", "P">>
dx_V3 == <<"_", "V", "3">>
dx_V2 == <<"_", "V", "2">>
dx_1inch == <<"1", "i", "n", "c", "h">>
dx_V4 == <<"_", "V", "4">>
dx_sushiswap == <<"s", "u", "s", "h", "i", "s", "w", "a", "p">>
dx_CURVE == <<"C", "U", "R", "V", "E">>
dx_AMM == <<"A", "M", "M">>
dx_0x == <<"0", "x">>
dx_dash == <<"-">>
dx_Para == <<"P", "a", "r", "a", "S", "w", "a", "p">>
dx_XYZ == <<"X", "Y", "Z">>

DexFrags == {dx_UNISWAP, dx_V3, dx_V2, dx_1inch, dx_V4, dx_sushiswap, dx_CURVE, dx_AMM,
             dx_0x, dx_dash, dx_Para, dx_XYZ}

DexNames == {Concat(ss) : ss \in SeqUpTo(DexFrags, MaxNameFrags)}

pr_UNISWAP_V3_60 == <<"U", "N", "I", "S", "W", "A", "P", "_", "V", "3", "-", "6", "0">>
pr_SUSHISWAP_40 == <<"S", "U", "S", "H", "I", "S", "W", "A", "P", "-", "4", "0">>
pr_CURVE == <<"C", "U", "R", "V", "E">>
pr_UNISWAP_abc == <<"U", "N", "I", "S", "W", "A", "P", "_", "V", "2", "-", "a", "b", "c">>
pr_BALANCER_ == <<"B", "A", "L", "A", "N", "C", "E", "R", "-">>
pr_three == <<"1", "I", "N", "C", "H", "-", "2", "5", "-", "x">>
pr_hex == <<"0", "X", "-", "0", "x", "1", "f">>
pr_ws == <<"D", "O", "D", "O", "-", " ", "+", "7", "%">>

ProtocolEntries == {JStr(pr_UNISWAP_V3_60), JStr(pr_SUSHISWAP_40), JStr(pr_CURVE),
                    JStr(pr_UNISWAP_abc), JStr(pr_BALANCER_), JStr(pr_three), JStr(pr_hex),
                    JStr(pr_ws), JObj}

ProtocolLists == {JNull, JObj} \cup {JArr(es) : es \in SeqUpTo(ProtocolEntries, MaxProtocols)}

SwapBodies == {JNull} \cup {SwapData(ps, tx) :
                  ps \in ProtocolLists, tx \in {JNull, TxRecord(RouterAddress, 150000)}}

CallEstimateGasForDex(dexName) ==
    /\ unit = UnitIdle
    /\ unit' = [op |-> "estimateGasForDex", dexName |-> dexName,
                gas |-> estimateGasForDex(dexName)]
    /\ UNCHANGED <<scan, scanLog, reqs>>

CallCalculateRouteBreakdown(swapData) ==
    /\ unit = UnitIdle
    /\ unit' = [op |-> "calculateRouteBreakdown", swapData |-> swapData,
                breakdown |-> calculateRouteBreakdown(swapData)]
    /\ UNCHANGED <<scan, scanLog, reqs>>

\* the call has returned; the next one may be made
UnitReturn ==
    /\ unit # UnitIdle
    /\ unit' = UnitIdle
    /\ UNCHANGED <<scan, scanLog, reqs>>

UnitInit ==
    /\ scan = ScanIdle
    /\ scanLog = <<>>
    /\ unit = UnitIdle
    /\ reqs = [r \in Requests |-> NoRequest]

UnitNext ==
    \/ \E dexName \in DexNames : CallEstimateGasForDex(dexName)
    \/ \E swapData \in SwapBodies : CallCalculateRouteBreakdown(swapData)
    \/ UnitReturn

UnitSpec == UnitInit /\ [][UnitNext]_vars

(***************************************************************************)
(* Properties of the pure methods, checked under UnitSpec                  *)
(***************************************************************************)
TableKeys == {i \in 1..Len(gasEstimates) : gasEstimates[i].key # key_default}

KeyedGas(name) == gasEstimates[CHOOSE i \in TableKeys : gasEstimates[i].key = name].gas

IsKey(name) == \E i \in TableKeys : gasEstimates[i].key = name

\* C9: estimateGasForDex answers with the entry keyed by the upper-cased name; failing
\* that, by the normalized name; failing that, the first table key (in table order,
\* 'default' excluded) that is a substring of the upper-cased name; failing that, 170000.
\* UNISWAP_V3 gives 150000, UNISWAP_V2 180000, 1inch_V4 160000, an unknown name 170000.
C9_GasLookupOrder ==
    unit.op = "estimateGasForDex" =>
        LET upper == toUpperCase(unit.dexName)
            normalized == normalizedName(unit.dexName)
            hits == {i \in TableKeys : includes(upper, gasEstimates[i].key)}
            first == CHOOSE i \in hits : \A j \in hits : i <= j
        IN /\ IsKey(upper) => unit.gas = KeyedGas(upper)
           /\ ~IsKey(upper) /\ IsKey(normalized) => unit.gas = KeyedGas(normalized)
           /\ ~IsKey(upper) /\ ~IsKey(normalized) /\ hits # {}
                 => unit.gas = gasEstimates[first].gas
           /\ ~IsKey(upper) /\ ~IsKey(normalized) /\ hits = {} => unit.gas = 170000
           /\ unit.dexName = dx_UNISWAP \o dx_V3 => unit.gas = 150000
           /\ unit.dexName = dx_UNISWAP \o dx_V2 => unit.gas = 180000
           /\ unit.dexName = dx_1inch \o dx_V4 => unit.gas = 160000
           /\ unit.dexName = dx_XYZ => unit.gas = 170000

\* C9 witness: the 1inch_V4 variant is resolved by the substring step, to the 1INCH entry
C9_Witness ==
    /\ unit.op = "estimateGasForDex"
    /\ unit.dexName = dx_1inch \o dx_V4
    /\ ~IsKey(toUpperCase(unit.dexName)) /\ ~IsKey(normalizedName(unit.dexName))
    /\ unit.gas = 160000

AllDigits(s) == s # <<>> /\ \A i \in 1..Len(s) : IsIn(s[i], Digits)

\* an entry of the shape <dexName>-<percent>
WellFormedEntry(entry) ==
    /\ entry.t = "str"
    /\ Len(split(entry.v, "-")) = 2
    /\ AllDigits(split(entry.v, "-")[2])

\* C10 as claimed: for every protocols list, parsing does not throw and the route
\* breakdown holds exactly the entries of the shape <dexName>-<percent>: an entry without
\* '-', with a non-numeric or empty percent, or that is no string, is dropped.
C10_MalformedDropped ==
    (unit.op = "calculateRouteBreakdown" /\ unit.swapData.t = "rec"
        /\ unit.swapData.protocols.t = "arr") =>
        /\ ~unit.breakdown.threw
        /\ Len(unit.breakdown.value.protocols)
              = Cardinality({i \in 1..Len(unit.swapData.protocols.items) :
                                WellFormedEntry(unit.swapData.protocols.items[i])})
        /\ \A i \in 1..Len(unit.breakdown.value.protocols) :
              ~unit.breakdown.value.protocols[i].percent.nan

(***************************************************************************)
(* The handler of POST /api/analyze-route (src/unnamed/part_000), one      *)
(* action per await.  Requests are served concurrently: between two awaits *)
(* of one request the handlers of the others may run.                      *)
(***************************************************************************)
WETH == "0xC02aaA39b223FE8D0A0e5C4F27eAD9083C756Cc2"

USDC == "0xA0b86991c6218b36c1d19D4a2e9Eb0cE3606eB48"

OneEther == "1000000000000000000"

FromAddress == "0x28C6c06298d514Db089934071355E5743bf21d60"

\* the request bodies: each of the four fields is given or absent, the amount also empty
Bodies == [fromToken : {WETH, "undefined"}, toToken : {USDC, "undefined"},
           amount : {OneEther, "", "undefined"}, fromAddress : {FromAddress, "undefined"}]

MissingParameters_threeFields(body) ==
    \/ body.fromToken \in {"", "undefined"} \/ body.toToken \in {"", "undefined"}
    \/ body.amount \in {"", "undefined"}

\* `!fromToken || !toToken || !amount || !fromAddress`
MissingParameters(body) ==
    \/ body.fromToken \in {"", "undefined"} \/ body.toToken \in {"", "undefined"}
    \/ body.amount \in {"", "undefined"} \/ body.fromAddress \in {"", "undefined"}

ln_Gas184000 == <<"G", "a", "s", " ", "u", "s", "e", "d", ":", " ", "1", "8", "4", "0", "0", "0", "\n">>
ln_Gas21000 == <<"G", "a", "s", " ", "u", "s", "e", "d", ":", " ", "2", "1", "0", "0", "0", "\n">>
ln_Slippage25 == <<"S", "l", "i", "p", "p", "a", "g", "e", " ", "(", "b", "a", "s", "i", "s", " ", "p", "o", "i", "n", "t", "s", ")", ":", " ", "2", "5", "\n">>
ln_Slippage7 == <<"S", "l", "i", "p", "p", "a", "g", "e", " ", "(", "b", "a", "s", "i", "s", " ", "p", "o", "i", "n", "t", "s", ")", ":", " ", "7", "\n">>
ln_Hop0 == <<"H", "o", "p", " ", "0", ":", " ", "U", "N", "I", "S", "W", "A", "P", "_", "V", "3", "\n">>
ln_Hop1 == <<"H", "o", "p", " ", "1", ":", " ", "s", "u", "s", "h", "i", "s", "w", "a", "p", "\n">>
ln_Hop3 == <<"H", "o", "p", " ", "3", ":", " ", "X", "Y", "Z", "\n">>
ln_Compiling == <<"C", "o", "m", "p", "i", "l", "i", "n", "g", ".", ".", ".", "\n">>

\* what the 1inch swap call may settle with
SwapOutcomes ==
    {HttpError,
     SwapAnswer(SwapData(JArr(<<JStr(pr_SUSHISWAP_40), JStr(pr_UNISWAP_abc)>>),
                         TxRecord(RouterAddress, 210000))),
     SwapAnswer(SwapData(JArr(<<JObj>>), TxRecord(RouterAddress, 210000))),
     SwapAnswer(SwapData(JArr(<<JStr(pr_CURVE)>>), TxRecord("undefined", 0))),
     SwapAnswer(SwapData(JNull, JNull)),
     SwapAnswer(SwapData(JArr(<<JObj>>), JNull))}

\* what the forge process may settle with
ForgeOutcomes ==
    {ForgeFailed, ForgeTimedOut,
     ForgeOutput(ln_Compiling \o ln_Gas184000 \o ln_Slippage25 \o ln_Hop0 \o ln_Hop1),
     ForgeOutput(ln_Compiling)}

\* values Math.random() may return, a float in [0, 1): the least and one near the end
MathRandom == {Rat(0, 1), Rat(499, 500)}

\* what the Etherscan calls of a request may settle with
RequestSourceResponses ==
    {HttpError, SourceBody("1", <<SourceRecord(JStr(sc_Proxy \o px_admin \o pt_txorigin))>>)}

RequestBytecodeResponses == {HttpError, BytecodeBody(JStr(bc_plain \o bc_DelegateCall))}

\* further answers: status '0', a SourceCode or a result that is no string
MoreSourceResponses ==
    {SourceBody("0", <<>>), SourceBody("1", <<SourceRecord(JObj)>>),
     SourceBody("1", <<SourceRecord(JStr(<<>>))>>)}

MoreBytecodeResponses == {BytecodeBody(JObj), BytecodeBody(JNull)}

BadRequest == [status |-> 400,
               error |-> "Missing required parameters: fromToken, toToken, amount, fromAddress"]

ServerError(message) == [status |-> 500, error |-> "Failed to analyze route", details |-> message]

\* res.json(result)
Result(routeAnalysis, simulationResults, securityAnalysis) ==
    [status |-> 200, routeAnalysis |-> routeAnalysis, simulationResults |-> simulationResults,
     securityAnalysis |-> securityAnalysis, timestamp |-> "now"]

\* how an upstream call of a request settled; hasTx tells whether a 2xx answer of the
\* swap call carries the tx object the handler reads the router address from
Settled(call, kind, hasTx) == [call |-> call, kind |-> kind, hasTx |-> hasTx]

\* the request arrives: validation, then analyze1inchRoute is called and issues the quote call
Receive(r, body) ==
    /\ reqs[r].pc = "none"
    /\ reqs' = [reqs EXCEPT ![r] =
          IF MissingParameters(body)
          THEN [pc |-> "responded", body |-> body, invoked |-> <<>>, calls |-> <<>>,
                upstream |-> <<>>, response |-> BadRequest]
          ELSE [pc |-> "quote", body |-> body, invoked |-> <<"analyze1inchRoute">>,
                calls |-> <<"quote">>, upstream |-> <<>>]]
    /\ UNCHANGED <<scan, scanLog, unit>>

\* simulateSwap is called with the route analysis and starts the forge process
CallSimulateSwap(request, upstream, routeAnalysis) ==
    [pc |-> "forge", body |-> request.body,
     invoked |-> Append(request.invoked, "simulateSwap"),
     calls |-> Append(request.calls, "forge"),
     upstream |-> upstream,
     routeAnalysis |-> routeAnalysis]

Fail_partial(request, upstream, message) ==
    [pc |-> "responded", body |-> request.body, invoked |-> request.invoked,
     calls |-> request.calls, upstream |-> upstream,
     response |-> [status |-> 500, error |-> "Failed to analyze route", details |-> message,
                   routeAnalysis |-> request.routeAnalysis]]

\* the handler's catch: res.status(500)
Fail(request, upstream, message) ==
    [pc |-> "responded", body |-> request.body, invoked |-> request.invoked,
     calls |-> request.calls, upstream |-> upstream, response |-> ServerError(message)]

QuoteSettled_retries(r, failed) ==
    /\ reqs[r].pc = "quote"
    /\ LET upstream == Append(reqs[r].upstream,
                              Settled("quote", IF failed THEN "error" ELSE "ok", FALSE))
       IN reqs' = [reqs EXCEPT ![r] =
            IF failed
            THEN IF Len(reqs[r].calls) < 2
                 THEN [pc |-> "quote", body |-> reqs[r].body, invoked |-> reqs[r].invoked,
                       calls |-> Append(reqs[r].calls, "quote"), upstream |-> upstream]
                 ELSE CallSimulateSwap(reqs[r], upstream,
                                       analyze1inchRoute(reqs[r].body, HttpError).value)
            ELSE [pc |-> "swap", body |-> reqs[r].body, invoked |-> reqs[r].invoked,
                  calls |-> Append(reqs[r].calls, "swap"), upstream |-> upstream]]
    /\ UNCHANGED <<scan, scanLog, unit>>

\* the quote call settles: on failure analyze1inchRoute returns the mock analysis,
\* otherwise it issues the swap call
QuoteSettled(r, failed) ==
    /\ reqs[r].pc = "quote"
    /\ LET upstream == Append(reqs[r].upstream,
                              Settled("quote", IF failed THEN "error" ELSE "ok", FALSE))
       IN reqs' = [reqs EXCEPT ![r] =
            IF failed
            THEN LET routeAnalysis == analyze1inchRoute(reqs[r].body, HttpError)
                 IN IF routeAnalysis.threw
                    THEN Fail(reqs[r], upstream, routeAnalysis.message)
                    ELSE CallSimulateSwap(reqs[r], upstream, routeAnalysis.value)
            ELSE [pc |-> "swap", body |-> reqs[r].body, invoked |-> reqs[r].invoked,
                  calls |-> Append(reqs[r].calls, "swap"), upstream |-> upstream]]
    /\ UNCHANGED <<scan, scanLog, unit>>

\* the swap call settles: analyze1inchRoute returns and simulateSwap is called
SwapSettled(r, settled) ==
    /\ reqs[r].pc = "swap"
    /\ LET routeAnalysis == analyze1inchRoute(reqs[r].body, settled)
           hasTx == settled.kind = "ok" /\ settled.data.t = "rec" /\ settled.data.tx.t = "rec"
           upstream == Append(reqs[r].upstream, Settled("swap", settled.kind, hasTx))
       IN reqs' = [reqs EXCEPT ![r] =
            IF routeAnalysis.threw
            THEN Fail(reqs[r], upstream, routeAnalysis.message)
            ELSE CallSimulateSwap(reqs[r], upstream, routeAnalysis.value)]
    /\ UNCHANGED <<scan, scanLog, unit>>

\* the forge process settles: simulateSwap returns; the handler reads routeAnalysis.tx.to
\* (a TypeError without tx) and calls scanRouterSecurity, which returns the default report
\* at once for an empty address and otherwise issues the getsourcecode call
ForgeSettled(r, settled, randoms) ==
    /\ reqs[r].pc = "forge"
    /\ LET request == reqs[r]
           simulationResults == simulateSwap(request.routeAnalysis, settled, randoms)
           tx == request.routeAnalysis.tx
           upstream == Append(request.upstream, Settled("forge", settled.kind, FALSE))
       IN reqs' = [reqs EXCEPT ![r] =
            IF tx.t # "rec"
            THEN Fail(request, upstream, "Cannot read properties of undefined (reading 'to')")
            ELSE IF AddressMissing(tx.to)
            THEN [pc |-> "responded", body |-> request.body,
                  invoked |-> Append(request.invoked, "scanRouterSecurity"),
                  calls |-> request.calls, upstream |-> upstream,
                  response |-> Result(request.routeAnalysis, simulationResults,
                                      getDefaultSecurityReport("null"))]
            ELSE [pc |-> "source", body |-> request.body,
                  invoked |-> Append(request.invoked, "scanRouterSecurity"),
                  calls |-> Append(request.calls, "getsourcecode"), upstream |-> upstream,
                  routeAnalysis |-> request.routeAnalysis,
                  simulationResults |-> simulationResults]]
    /\ UNCHANGED <<scan, scanLog, unit>>

\* the getsourcecode call settles; the eth_getCode call is issued
SourceSettled(r, response) ==
    /\ reqs[r].pc = "source"
    /\ reqs' = [reqs EXCEPT ![r] =
          [pc |-> "bytecode", body |-> reqs[r].body, invoked |-> reqs[r].invoked,
           calls |-> Append(reqs[r].calls, "eth_getCode"),
           upstream |-> Append(reqs[r].upstream, Settled("getsourcecode", response.kind, FALSE)),
           routeAnalysis |-> reqs[r].routeAnalysis,
           simulationResults |-> reqs[r].simulationResults,
           sourceCode |-> getContractSourceCode(response)]]
    /\ UNCHANGED <<scan, scanLog, unit>>

\* the eth_getCode call settles: the analysis runs, scanRouterSecurity returns and the
\* handler sends the combined result
BytecodeSettled(r, response) ==
    /\ reqs[r].pc = "bytecode"
    /\ LET request == reqs[r]
           bytecode == getContractBytecode(response)
           securityAnalysis == completeScan(request.routeAnalysis.tx.to, request.sourceCode, bytecode)
       IN /\ reqs' = [reqs EXCEPT ![r] =
                [pc |-> "responded", body |-> request.body, invoked |-> request.invoked,
                 calls |-> request.calls,
                 upstream |-> Append(request.upstream, Settled("eth_getCode", response.kind, FALSE)),
                 response |-> Result(request.routeAnalysis, request.simulationResults,
                                     securityAnalysis)]]
          /\ scanLog' = Append(scanLog, [request |-> r,
                                         sourceCode |-> request.sourceCode,
                                         bytecode |-> bytecode,
                                         riskScore |-> securityAnalysis.riskScore,
                                         riskLevel |-> securityAnalysis.riskLevel])
    /\ UNCHANGED <<scan, unit>>

\* the number of random draws simulateSwap makes: one per protocol when forge failed
Draws(request, settled) ==
    IF request.pc # "forge" \/ settled.kind = "ok" THEN 0
    ELSE Len(request.routeAnalysis.routeBreakdown.protocols)

Init ==
    /\ scan = ScanIdle
    /\ scanLog = <<>>
    /\ unit = UnitIdle
    /\ reqs = [r \in Requests |-> NoRequest]

\* one request, every outcome of every upstream call
Next ==
    \E r \in {"r1"} :
        \/ \E body \in Bodies : Receive(r, body)
        \/ \E failed \in BOOLEAN : QuoteSettled(r, failed)
        \/ \E settled \in SwapOutcomes : SwapSettled(r, settled)
        \/ \E settled \in ForgeOutcomes :
              \E randoms \in [1..Draws(reqs[r], settled) -> MathRandom] :
                  ForgeSettled(r, settled, randoms)
        \/ \E response \in RequestSourceResponses \cup MoreSourceResponses :
              SourceSettled(r, response)
        \/ \E response \in RequestBytecodeResponses \cup MoreBytecodeResponses :
              BytecodeSettled(r, response)

Spec == Init /\ [][Next]_vars

\* the requests served concurrently, their handlers interleaved at the awaits
ConcurrentNext ==
    \E r \in Requests :
        \/ \E body \in {b \in Bodies : b.fromToken = WETH /\ b.toToken = USDC
                                          /\ b.fromAddress = FromAddress} : Receive(r, body)
        \/ \E failed \in BOOLEAN : QuoteSettled(r, failed)
        \/ \E settled \in {HttpError} : SwapSettled(r, settled)
        \/ \E settled \in {ForgeFailed, ForgeOutput(ln_Slippage7 \o ln_Hop3)} :
              \E randoms \in [1..Draws(reqs[r], settled) -> MathRandom] :
                  ForgeSettled(r, settled, randoms)
        \/ \E response \in RequestSourceResponses : SourceSettled(r, response)
        \/ \E response \in RequestBytecodeResponses : BytecodeSettled(r, response)

ConcurrentSpec == Init /\ [][ConcurrentNext]_vars

(***************************************************************************)
(* simulateSwap called on its own: the forge output is a few lines, the    *)
(* route analysis one of several breakdowns.                               *)
(***************************************************************************)
MaxOutputLines == 3

ln_Slippage40 == <<"S", "l", "i", "p", "p", "a", "g", "e", " ", "(", "b", "a", "s", "i", "s", " ", "p", "o", "i", "n", "t", "s", ")", ":", " ", "4", "0", "\n">>
ln_HopGas == <<"H", "o", "p", " ", "2", ":", " ", "C", "U", "R", "V", "E", " ", "G", "a", "s", " ", "u", "s", "e", "d", ":", " ", "5", "\n">>
ln_hop == <<"h", "o", "p", " ", "4", ":", " ", "D", "O", "D", "O", "\n">>

OutputLines == {ln_Gas184000, ln_Gas21000, ln_Slippage25, ln_Slippage7, ln_Slippage40,
                ln_Hop0, ln_Hop1, ln_Hop3, ln_HopGas, ln_hop, ln_Compiling}

ForgeOutputs == {Concat(ls) : ls \in SeqUpTo(OutputLines, MaxOutputLines)}

\* the analysis analyze1inchRoute returns for a swap answer with these protocols
RouteAnalysisOf(protocols) ==
    analyze1inchRoute([fromToken |-> WETH, toToken |-> USDC, amount |-> OneEther,
                       fromAddress |-> FromAddress],
                      SwapAnswer(SwapData(protocols, TxRecord(RouterAddress, 210000)))).value

\* route analyses of two (the mock), no, one and three protocols
SimRouteAnalyses ==
    {RouteAnalysisOf(JArr(<<JObj>>)), RouteAnalysisOf(JArr(<<>>)),
     RouteAnalysisOf(JArr(<<JStr(pr_three)>>)),
     RouteAnalysisOf(JArr(<<JStr(pr_hex), JStr(pr_UNISWAP_abc), JStr(pr_SUSHISWAP_40)>>))}

\* simulateSwap(routeAnalysis) with the forge process settling as given
Simulate(routeAnalysis, settled, randoms) ==
    /\ unit = UnitIdle
    /\ unit' = [op |-> "simulateSwap", routeAnalysis |-> routeAnalysis, settled |-> settled,
                randoms |-> randoms,
                simulationResults |-> simulateSwap(routeAnalysis, settled, randoms)]
    /\ UNCHANGED <<scan, scanLog, reqs>>

\* the output with the number of its first 'Gas used: <int>' replaced
ReplaceGasFigure(output, digits) ==
    LET hits == {i \in 1..Len(output) :
                    MatchAt(output, i, re_GasUsed) /\ digitRun(output, i + Len(re_GasUsed)) > 0}
        i == CHOOSE j \in hits : \A k \in hits : j <= k
        from == i + Len(re_GasUsed)
    IN  SubSeq(output, 1, from - 1) \o digits
            \o SubSeq(output, from + digitRun(output, from), Len(output))

\* simulateSwap once more, the forge output differing only in its gas figure
SimulateWithGasFigure(digits) ==
    /\ unit.op = "simulateSwap"
    /\ unit.settled.kind = "ok"
    /\ firstNumberAfter(unit.settled.stdout, re_GasUsed) \notin {<<>>, digits}
    /\ LET settled == ForgeOutput(ReplaceGasFigure(unit.settled.stdout, digits))
       IN unit' = [op |-> "simulateSwap", routeAnalysis |-> unit.routeAnalysis,
                   settled |-> settled, randoms |-> unit.randoms,
                   simulationResults |-> simulateSwap(unit.routeAnalysis, settled, unit.randoms)]
    /\ UNCHANGED <<scan, scanLog, reqs>>

\* Math.random() is called once per protocol, and only when the process did not succeed
SimDraws(routeAnalysis, settled) ==
    IF settled.kind = "ok" THEN 0 ELSE Len(routeAnalysis.routeBreakdown.protocols)

SimInit ==
    /\ scan = ScanIdle
    /\ scanLog = <<>>
    /\ unit = UnitIdle
    /\ reqs = [r \in Requests |-> NoRequest]

\* the process fails for any of the route analyses, or it completes (the route analysis
\* is then not read: the mock one)
SimNext ==
    \/ \E routeAnalysis \in SimRouteAnalyses :
          \E settled \in {ForgeFailed, ForgeTimedOut} :
              \E randoms \in [1..SimDraws(routeAnalysis, settled) -> MathRandom] :
                  Simulate(routeAnalysis, settled, randoms)
    \/ \E output \in ForgeOutputs :
          Simulate(RouteAnalysisOf(JArr(<<JObj>>)), ForgeOutput(output), <<>>)
    \/ \E digits \in {<<"7">>, <<"2", "1", "0", "0", "0">>} : SimulateWithGasFigure(digits)
    \/ UnitReturn

SimSpec == SimInit /\ [][SimNext]_vars

(***************************************************************************)
(* Properties of simulateSwap, checked under SimSpec                       *)
(***************************************************************************)
SimCalled == unit.op = "simulateSwap"

\* the output has no 'Gas used: <int>', 'Slippage (basis points): <int>' or 'Hop <n>: ' line
Unparsable(output) ==
    /\ firstNumberAfter(output, re_GasUsed) = <<>>
    /\ firstNumberAfter(output, re_Slippage) = <<>>
    /\ hopMatches(output, 1) = <<>>

\* C13: when the process completes but its output has no 'Gas used:', 'Slippage (basis
\* points):' or 'Hop <n>:' line, simulateSwap returns the fallback result built from the
\* route breakdown's protocols, not a successful simulation result.
C13_UnparsableIsFallback ==
    (SimCalled /\ unit.settled.kind = "ok" /\ Unparsable(unit.settled.stdout)) =>
        /\ ~unit.simulationResults.success
        /\ "fallbackAnalysis" \in DOMAIN unit.simulationResults

\* a <= b and a = b as values of two fractions (denominators are positive)
RatLeq(a, b) == a.num * b.den <= b.num * a.den

RatEq(a, b) == a.num * b.den = b.num * a.den

\* the sum of the slippage values of the entries from the k-th on
RECURSIVE SlippageFrom(_, _)
SlippageFrom(perHop, k) ==
    IF k > Len(perHop) THEN Rat(0, 1)
    ELSE LET rest == SlippageFrom(perHop, k + 1)
         IN Rat(perHop[k].slippage.num * rest.den + rest.num * perHop[k].slippage.den,
                perHop[k].slippage.den * rest.den)

\* C16: the fallback result has one slippage entry and one gas entry per protocol of
\* the route breakdown, in order, with hop the protocol's position; every slippage lies
\* between 10 and 60 basis points and is marked estimated, the result is marked
\* fallback, and totalSlippage is the sum of the per-hop values (between 10n and 60n).
C16_FallbackShape ==
    (SimCalled /\ unit.settled.kind # "ok") =>
        LET fallbackAnalysis == unit.simulationResults.fallbackAnalysis
            protocols == unit.routeAnalysis.routeBreakdown.protocols
            n == Len(protocols)
        IN  /\ Len(fallbackAnalysis.perHopSlippage) = n
            /\ Len(fallbackAnalysis.gasEstimates) = n
            /\ \A k \in 1..n :
                  /\ fallbackAnalysis.perHopSlippage[k].hop = k - 1
                  /\ fallbackAnalysis.perHopSlippage[k].hop = protocols[k].index
                  /\ fallbackAnalysis.perHopSlippage[k].dex = protocols[k].dex
                  /\ fallbackAnalysis.gasEstimates[k].hop = k - 1
                  /\ fallbackAnalysis.gasEstimates[k].dex = protocols[k].dex
                  /\ RatLeq(Rat(10, 1), fallbackAnalysis.perHopSlippage[k].slippage)
                  /\ RatLeq(fallbackAnalysis.perHopSlippage[k].slippage, Rat(60, 1))
                  /\ fallbackAnalysis.perHopSlippage[k].estimated
            /\ fallbackAnalysis.fallback
            /\ RatEq(fallbackAnalysis.totalSlippage,
                     SlippageFrom(fallbackAnalysis.perHopSlippage, 1))
            /\ RatLeq(Rat(10 * n, 1), fallbackAnalysis.totalSlippage)
            /\ RatLeq(fallbackAnalysis.totalSlippage, Rat(60 * n, 1))

C16_Witness ==
    /\ SimCalled /\ unit.settled.kind = "error"
    /\ Len(unit.simulationResults.fallbackAnalysis.perHopSlippage) = 3
    /\ unit.simulationResults.fallbackAnalysis.perHopSlippage[1].slippage = Rat(10, 1)
    /\ unit.simulationResults.fallbackAnalysis.perHopSlippage[3].slippage = Rat(599, 10)

\* the lines of the output
LinesOf(output) == split(output, "\n")

\* the line reads 'Hop <n>: <dexName>'
IsHopLine(line) ==
    LET d == digitRun(line, Len(re_Hop) + 1)
    IN  /\ MatchAt(line, 1, re_Hop)
        /\ d > 0
        /\ MatchAt(line, Len(re_Hop) + d + 1, re_ColonSpace)
        /\ Len(line) > Len(re_Hop) + d + Len(re_ColonSpace)

HopNumber(line) ==
    parseInt(SubSeq(line, Len(re_Hop) + 1, Len(re_Hop) + digitRun(line, Len(re_Hop) + 1))).n

HopName(line) ==
    SubSeq(line, Len(re_Hop) + digitRun(line, Len(re_Hop) + 1) + Len(re_ColonSpace) + 1,
           Len(line))

\* the line reads 'Slippage (basis points): <int>'
IsSlippageLine(line) ==
    MatchAt(line, 1, re_Slippage) /\ digitRun(line, Len(re_Slippage) + 1) > 0

\* the number of the first slippage line, 0 without one
GlobalSlippage(output) ==
    LET found == SelectSeq(LinesOf(output), IsSlippageLine)
    IN  IF found = <<>> THEN 0
        ELSE parseInt(SubSeq(found[1], Len(re_Slippage) + 1,
                             Len(re_Slippage) + digitRun(found[1], Len(re_Slippage) + 1))).n

\* C17: parseFoundryOutput extracts one global slippage S (the first 'Slippage (basis
\* points): <int>' line, 0 if absent) and emits, for every 'Hop <n>: <dexName>' line in
\* output order, one entry whose slippage is S / (n + 1), n being the printed hop
\* number; totalSlippage is S itself, not the sum of the per-hop values.
C17_SlippageRedistributed ==
    (SimCalled /\ unit.settled.kind = "ok") =>
        LET hopLines == SelectSeq(LinesOf(unit.settled.stdout), IsHopLine)
            S == GlobalSlippage(unit.settled.stdout)
            perHopSlippage == unit.simulationResults.perHopSlippage
        IN  /\ Len(perHopSlippage) = Len(hopLines)
            /\ \A k \in 1..Len(hopLines) :
                  /\ perHopSlippage[k].hop = HopNumber(hopLines[k])
                  /\ perHopSlippage[k].dex = HopName(hopLines[k])
                  /\ RatEq(perHopSlippage[k].slippage, Rat(S, HopNumber(hopLines[k]) + 1))
            /\ RatEq(unit.simulationResults.totalSlippage, Rat(S, 1))

\* two slippage lines, the first one counts; the hop printed as 3 gets a quarter of it
C17_Witness ==
    /\ SimCalled
    /\ unit.settled = ForgeOutput(ln_Slippage25 \o ln_Slippage7 \o ln_Hop3)
    /\ Len(unit.simulationResults.perHopSlippage) = 1
    /\ unit.simulationResults.perHopSlippage[1].hop = 3
    /\ unit.simulationResults.perHopSlippage[1].slippage = Rat(25, 4)
    /\ unit.simulationResults.totalSlippage = Rat(25, 1)

\* the step is a second simulation whose output differs from the first one's only in
\* the number of its 'Gas used: <int>'
GasFigureChanged ==
    /\ SimCalled /\ unit.settled.kind = "ok"
    /\ unit'.op = "simulateSwap" /\ unit'.settled.kind = "ok"
    /\ unit'.routeAnalysis = unit.routeAnalysis
    /\ firstNumberAfter(unit.settled.stdout, re_GasUsed) # <<>>
    /\ unit'.settled.stdout # unit.settled.stdout
    /\ unit'.settled.stdout =
          ReplaceGasFigure(unit.settled.stdout, firstNumberAfter(unit'.settled.stdout, re_GasUsed))

\* the two results agree in perHopSlippage, gasEstimates and totalSlippage, and the
\* per-hop gas values are values of the static table
SameAnalysis ==
    /\ unit'.simulationResults.perHopSlippage = unit.simulationResults.perHopSlippage
    /\ unit'.simulationResults.gasEstimates = unit.simulationResults.gasEstimates
    /\ unit'.simulationResults.totalSlippage = unit.simulationResults.totalSlippage
    /\ \A k \in 1..Len(unit'.simulationResults.gasEstimates) :
          LET estimate == unit'.simulationResults.gasEstimates[k]
          IN  /\ \E i \in 1..Len(gasEstimates) : estimate.gas = gasEstimates[i].gas
              /\ estimate.dex = mk_UNISWAP_V3 => estimate.gas = 150000
              /\ estimate.dex = <<"X", "Y", "Z">> => estimate.gas = 170000

\* the first 'Gas used: <int>' of the output stands on a line that holds a hop entry
GasFigureOnHopLine(output) ==
    LET found == SelectSeq(LinesOf(output),
                           LAMBDA line : firstNumberAfter(line, re_GasUsed) # <<>>)
    IN  found # <<>> /\ hopMatches(found[1], 1) # <<>>

\* C18 as claimed: the 'Gas used: <int>' figure never influences the returned analysis:
\* for two outputs that differ only in that number simulateSwap returns identical
\* perHopSlippage, gasEstimates and totalSlippage, and every per-hop gas value is the
\* static table value for the hop's DEX name.
C18_GasFigureIgnored == [][GasFigureChanged => SameAnalysis]_vars

\* C18 amended: the same, for outputs whose 'Gas used: <int>' does not stand on a line
\* that also holds a 'Hop <n>: ' entry.
C18_GasFigureIgnoredOffHopLines ==
    [][(GasFigureChanged /\ ~GasFigureOnHopLine(unit.settled.stdout)) => SameAnalysis]_vars

\* a simulation of an output whose gas figure was replaced by 7
C18_Witness ==
    /\ SimCalled
    /\ unit.settled = ForgeOutput(re_GasUsed \o <<"7", "\n">> \o ln_Slippage25 \o ln_Hop0)
    /\ Len(unit.simulationResults.gasEstimates) = 1
    /\ unit.simulationResults.gasEstimates[1].gas = 150000

(***************************************************************************)
(* Properties of the handler, checked under Spec and ConcurrentSpec        *)
(***************************************************************************)
RequiredFields == {"fromToken", "toToken", "amount", "fromAddress"}

Responded(r) == reqs[r].pc = "responded"

\* C1: a request in which at least one of fromToken, toToken, amount, fromAddress is
\* missing is answered with HTTP 400, and none of analyze1inchRoute, simulateSwap,
\* scanRouterSecurity is invoked for it, nor any upstream call made.
C1_MissingFieldRejected ==
    \A r \in Requests :
        (reqs[r].pc # "none" /\ \E f \in RequiredFields : reqs[r].body[f] = "undefined") =>
            /\ Responded(r)
            /\ reqs[r].response.status = 400
            /\ reqs[r].invoked = <<>>
            /\ reqs[r].calls = <<>>

C1_Witness ==
    /\ Responded("r1")
    /\ reqs["r1"].body = [fromToken |-> WETH, toToken |-> USDC, amount |-> OneEther,
                           fromAddress |-> "undefined"]
    /\ reqs["r1"].response.status = 400

\* every upstream call the request made has failed
AllUpstreamFailed(request) ==
    \A i \in 1..Len(request.upstream) : request.upstream[i].kind # "ok"

\* C2: the WETH to USDC request for which every upstream call fails is answered with the
\* two-hop fallback route (UNISWAP_V3 60%, SUSHISWAP 40%), a fallback simulation flagged
\* as estimated, and the default security report: riskScore 50, MEDIUM.
C2_AllUpstreamFailing ==
    \A r \in Requests :
        (/\ Responded(r)
         /\ reqs[r].body = [fromToken |-> WETH, toToken |-> USDC, amount |-> OneEther,
                             fromAddress |-> FromAddress]
         /\ AllUpstreamFailed(reqs[r])) =>
            /\ reqs[r].response.status = 200
            /\ LET protocols == reqs[r].response.routeAnalysis.routeBreakdown.protocols
               IN /\ Len(protocols) = 2
                  /\ protocols[1].dex = mk_UNISWAP_V3 /\ protocols[1].percent = Num(60)
                  /\ protocols[2].dex = mk_SUSHISWAP /\ protocols[2].percent = Num(40)
            /\ LET simulationResults == reqs[r].response.simulationResults
               IN /\ ~simulationResults.success
                  /\ simulationResults.fallbackAnalysis.fallback
                  /\ Len(simulationResults.fallbackAnalysis.perHopSlippage) = 2
                  /\ \A k \in 1..2 :
                        simulationResults.fallbackAnalysis.perHopSlippage[k].estimated
            /\ reqs[r].response.securityAnalysis.riskScore = 50
            /\ reqs[r].response.securityAnalysis.riskLevel = "MEDIUM"

\* the swap call was answered 2xx with a body that has no tx object
SwapAnswerWithoutTx(request) ==
    \E i \in 1..Len(request.upstream) :
        /\ request.upstream[i].call = "swap"
        /\ request.upstream[i].kind = "ok"
        /\ ~request.upstream[i].hasTx

\* C4: for a request with all four fields given, whatever upstream calls fail (network
\* error or non-2xx from 1inch or Etherscan, failure or timeout of the simulation
\* process), the handler ends with the combined result {routeAnalysis,
\* simulationResults, securityAnalysis, timestamp} and never with HTTP 500.  (The only
\* 500 is for a swap call that succeeds with a body lacking tx, which is no failure of
\* an upstream call.)
C4_UpstreamFailuresAbsorbed ==
    \A r \in Requests :
        (/\ Responded(r)
         /\ \A f \in RequiredFields : reqs[r].body[f] \notin {"", "undefined"}
         /\ ~SwapAnswerWithoutTx(reqs[r])) =>
            /\ reqs[r].response.status = 200
            /\ DOMAIN reqs[r].response =
                  {"status", "routeAnalysis", "simulationResults", "securityAnalysis",
                   "timestamp"}

C4_Witness ==
    /\ Responded("r1")
    /\ reqs["r1"].response.status = 200
    /\ Len(reqs["r1"].upstream) = 5
    /\ reqs["r1"].upstream[2] = Settled("swap", "error", FALSE)
    /\ reqs["r1"].upstream[3] = Settled("forge", "timeout", FALSE)
    /\ reqs["r1"].upstream[4] = Settled("getsourcecode", "error", FALSE)
    /\ reqs["r1"].upstream[5] = Settled("eth_getCode", "error", FALSE)

IsFixture(routeAnalysis) ==
    LET protocols == routeAnalysis.routeBreakdown.protocols
    IN  /\ Len(protocols) = 2
        /\ protocols[1].dex = mk_UNISWAP_V3 /\ protocols[1].percent = Num(60)
        /\ protocols[2].dex = mk_SUSHISWAP /\ protocols[2].percent = Num(40)
        /\ routeAnalysis.routeBreakdown.totalPercent = Num(100)
        /\ routeAnalysis.tx.t = "rec"
        /\ routeAnalysis.tx.to = RouterAddress

\* the quote or the swap call was rejected (network error, non-2xx status)
RouteCallRejected(request) ==
    \E i \in 1..Len(request.upstream) :
        request.upstream[i].call \in {"quote", "swap"} /\ request.upstream[i].kind = "error"

\* C11: on any upstream failure of the quote call or of the swap call (network error,
\* non-2xx status, malformed body) analyze1inchRoute returns the fixture: the route
\* UNISWAP_V3 60% / SUSHISWAP 40% with totalPercent 100 and a tx whose target is the
\* fixed router address.
C11_FixtureOnRouteFailure ==
    \A r \in Requests :
        (reqs[r].pc = "forge"
            /\ (RouteCallRejected(reqs[r]) \/ SwapAnswerWithoutTx(reqs[r]))) =>
            IsFixture(reqs[r].routeAnalysis)

\* how the forge process of the request settled: "ok", "error", "timeout", or "none"
\* while it has not
ForgeKind(request) ==
    IF \E i \in 1..Len(request.upstream) : request.upstream[i].call = "forge"
    THEN LET i == CHOOSE i \in 1..Len(request.upstream) : request.upstream[i].call = "forge"
         IN request.upstream[i].kind
    ELSE "none"

\* simulateSwap has returned to the handler and its result is still held
HasSimulationResults(request) ==
    \/ request.pc \in {"source", "bytecode"}
    \/ request.pc = "responded" /\ request.response.status = 200

SimulationResultsOf(request) ==
    IF request.pc = "responded" THEN request.response.simulationResults
    ELSE request.simulationResults

\* C12: when the simulation process fails or exceeds its 30 s wait bound, simulateSwap
\* resolves with the fallback result (success false, fallbackAnalysis present); the
\* failure never aborts the request (a 500 then has the missing tx as its only cause).
C12_ProcessFailureIsFallback ==
    \A r \in Requests :
        (reqs[r].pc # "none" /\ ForgeKind(reqs[r]) \in {"error", "timeout"}) =>
            /\ HasSimulationResults(reqs[r]) =>
                  /\ ~SimulationResultsOf(reqs[r]).success
                  /\ "fallbackAnalysis" \in DOMAIN SimulationResultsOf(reqs[r])
                  /\ SimulationResultsOf(reqs[r]).fallbackAnalysis.fallback
            /\ ~HasSimulationResults(reqs[r]) =>
                  /\ Responded(r)
                  /\ reqs[r].response.status = 500
                  /\ SwapAnswerWithoutTx(reqs[r])

C12_Witness ==
    /\ Responded("r1")
    /\ ForgeKind(reqs["r1"]) = "timeout"
    /\ reqs["r1"].response.status = 200
    /\ ~reqs["r1"].response.simulationResults.success
    /\ Len(reqs["r1"].response.simulationResults.fallbackAnalysis.perHopSlippage) = 2

\* the external calls of a request in the order of the code
CallOrder == <<"quote", "swap", "forge", "getsourcecode", "eth_getCode">>

CallRank(call) == CHOOSE i \in 1..Len(CallOrder) : CallOrder[i] = call

\* C14: within one request the external calls are strictly sequential and never
\* retried: each is issued at most once, in the order quote, swap, forge, getsourcecode,
\* eth_getCode, and only after the previous one has settled; when the quote call fails
\* the swap call is not attempted and the next call is the simulation's.
C14_SequentialNoRetry ==
    \A r \in Requests :
        reqs[r].pc # "none" =>
            LET calls == reqs[r].calls
                upstream == reqs[r].upstream
            IN  /\ \A i, j \in 1..Len(calls) : i < j => CallRank(calls[i]) < CallRank(calls[j])
                /\ Len(upstream) <= Len(calls) /\ Len(calls) <= Len(upstream) + 1
                /\ \A i \in 1..Len(upstream) : upstream[i].call = calls[i]
                /\ (Len(upstream) >= 1 /\ upstream[1].kind = "error") =>
                        /\ \A i \in 1..Len(calls) : calls[i] # "swap"
                        /\ Len(calls) >= 2 /\ calls[2] = "forge"

C14_Witness ==
    /\ Responded("r1")
    /\ reqs["r1"].calls = <<"quote", "forge", "getsourcecode", "eth_getCode">>
    /\ reqs["r1"].upstream[1] = Settled("quote", "error", FALSE)
    /\ reqs["r1"].upstream[4].call = "eth_getCode"

\* the TypeError of `routeAnalysis.tx.to` when the analysis has no tx
TxTypeError == "Cannot read properties of undefined (reading 'to')"

\* C15: when an exception occurs during orchestration after validation passed, the
\* handler sends exactly one response: HTTP 500 with the generic error and the
\* underlying message, and none of routeAnalysis, simulationResults, securityAnalysis,
\* even though analyzers had already completed; a response once sent is never replaced.
C15_ExceptionIsGeneric500 ==
    [][\A r \in Requests :
          LET after == reqs'[r]
          IN  /\ (after.pc = "responded" /\ after.response.status = 500) =>
                    /\ DOMAIN after.response = {"status", "error", "details"}
                    /\ after.response.error = "Failed to analyze route"
                    /\ after.response.details = TxTypeError
                    /\ SwapAnswerWithoutTx(after)
              /\ Responded(r) => after = reqs[r]]_vars

C15_Witness ==
    /\ Responded("r1")
    /\ reqs["r1"].response.status = 500
    /\ reqs["r1"].response.details = TxTypeError
    /\ reqs["r1"].invoked = <<"analyze1inchRoute", "simulateSwap">>
    /\ ForgeKind(reqs["r1"]) = "ok"

(***************************************************************************)
(* Properties of the scanner, checked under ScanSpec                       *)
(***************************************************************************)
\* the scan ran the analysis to its end (it did not fall to the default report)
ScanAnalysed ==
    /\ scan.pc = "returned" /\ scan.fetched
    /\ scan.bytecode.t \in {"null", "str"}
    /\ HasSourceCode(scan.sourceCode) => scan.sourceCode.SourceCode.t = "str"

\* the bytecode text the opcode scan reads: none when the bytecode is null or empty
ScanBytecodeText == IF scan.bytecode.t = "str" THEN toLowerCase(scan.bytecode.v) ELSE <<>>

\* the source text the proxy and keyword checks read: none when unverified
ScanSourceText ==
    IF HasSourceCode(scan.sourceCode) THEN toLowerCase(scan.sourceCode.SourceCode.v) ELSE <<>>

ProxyMarkers == {px_eip1967, px_implementation, px_admin, px_transparentupgradeableproxy,
                 px_transparentproxy, px_uups, px_upgradeable}

OpcodesPresent(bytecodeText) ==
    {i \in 1..Len(dangerousOpcodes) : includes(bytecodeText, dangerousOpcodes[i])}

IssuesPresent(sourceText) ==
    {i \in 1..Len(securityIssues) : includes(sourceText, securityIssues[i].pattern)}

ProxyMarkerPresent(sourceText) == \E m \in ProxyMarkers : includes(sourceText, m)

Indicator(b) == IF b THEN 1 ELSE 0

\* C5: the riskScore of every completed analysis is the sum 20*[unverified] +
\* 10*[proxy marker in the source] + 15*(dangerous-opcode keywords in the bytecode) +
\* 25*[delegatecall] + 30*[selfdestruct] + 5*(source keywords in the source text); a
\* verified contract with no match at all scores 0 and is rated SAFE.
C5_AdditiveScore ==
    ScanAnalysed =>
        LET sourceText == ScanSourceText
            bytecodeText == ScanBytecodeText
            proxy == ProxyMarkerPresent(sourceText)
            opcodes == OpcodesPresent(bytecodeText)
            issues == IssuesPresent(sourceText)
        IN
        /\ scan.report.riskScore =
              20 * Indicator(~HasSourceCode(scan.sourceCode))
            + 10 * Indicator(proxy)
            + 15 * Cardinality(opcodes)
            + 25 * Indicator(includes(bytecodeText, op_delegatecall))
            + 30 * Indicator(includes(bytecodeText, op_selfdestruct))
            + 5 * Cardinality(issues)
        /\ (HasSourceCode(scan.sourceCode) /\ ~proxy /\ opcodes = {} /\ issues = {})
           => scan.report.riskScore = 0 /\ scan.report.riskLevel = "SAFE"

\* C5 witness: an analysis in which the proxy, opcode, delegatecall, selfdestruct and
\* source-keyword terms all contribute (10 + 2*15 + 25 + 30 + 2*5)
C5_Witness ==
    /\ ScanAnalysed
    /\ scan.report.isVerified /\ scan.report.isProxy
    /\ Len(scan.report.dangerousOpcodes) = 2 /\ Len(scan.report.issues) = 2
    /\ scan.report.riskScore = 105

\* C6: in every report a scan returns, computed or default, the riskLevel is the one the
\* thresholds 80 / 60 / 40 / 20 assign to the riskScore.
C6_LevelFromScore ==
    scan.pc = "returned" =>
        LET score == scan.report.riskScore
            level == scan.report.riskLevel
        IN /\ score >= 0
           /\ (level = "CRITICAL") = (score >= 80)
           /\ (level = "HIGH") = (score \in 60..79)
           /\ (level = "MEDIUM") = (score \in 40..59)
           /\ (level = "LOW") = (score \in 20..39)
           /\ (level = "SAFE") = (score \in 0..19)

\* C6 witness: a computed report that sits exactly on a threshold (unverified, nothing else)
C6_Witness ==
    /\ ScanAnalysed
    /\ scan.report.riskScore = 20 /\ scan.report.riskLevel = "LOW"

LevelRank(level) ==
    CASE level = "SAFE" -> 0 [] level = "LOW" -> 1 [] level = "MEDIUM" -> 2
      [] level = "HIGH" -> 3 [] level = "CRITICAL" -> 4

\* the step is a second scan of the same source with one keyword added to the bytecode text
OpcodeAdded ==
    /\ scan.pc = "returned" /\ scan.fetched /\ scan.bytecode.t = "str"
    /\ scan'.pc = "returned" /\ scan'.fetched /\ scan'.bytecode.t = "str"
    /\ scan'.sourceCode = scan.sourceCode
    /\ \E i \in 1..Len(dangerousOpcodes) :
          \/ scan'.bytecode.v = scan.bytecode.v \o dangerousOpcodes[i]
          \/ scan'.bytecode.v = dangerousOpcodes[i] \o scan.bytecode.v

C3_DefaultOnFetchFailure ==
    ( /\ scan.pc = "returned" /\ scan.fetched
      /\ scan.sourceResponse.kind = "error" \/ scan.bytecodeResponse.kind = "error" )
    => /\ scan.report.riskScore = 50
       /\ scan.report.riskLevel = "MEDIUM"
       /\ scan.report.riskFactors = <<Factor("Unable to analyze contract", 0)>>

HasFactor(report, msg) == \E i \in 1..Len(report.riskFactors) : report.riskFactors[i].msg = msg

\* C19: in every report a scan returns, computed or default, isProxy implies isVerified:
\* the factors 'Contract not verified' (+20) and 'Contract uses proxy pattern' (+10) never
\* stand together, and a scan whose fetched record carries no source text never reports
\* a proxy.
C19_ProxyImpliesVerified ==
    scan.pc = "returned" =>
        /\ scan.report.isProxy => scan.report.isVerified
        /\ ~( /\ HasFactor(scan.report, "Contract not verified")
              /\ HasFactor(scan.report, "Contract uses proxy pattern") )
        /\ (scan.fetched /\ ~HasSourceCode(scan.sourceCode)) => ~scan.report.isProxy

\* C19 witness: a scan of verified source text that holds a proxy marker: reported as a
\* proxy and as verified, with the proxy factor and without the unverified one
C19_Witness ==
    /\ ScanAnalysed
    /\ HasSourceCode(scan.sourceCode)
    /\ ProxyMarkerPresent(ScanSourceText)
    /\ scan.report.isProxy /\ scan.report.isVerified
    /\ HasFactor(scan.report, "Contract uses proxy pattern")
    /\ ~HasFactor(scan.report, "Contract not verified")

\* the points analyzeContractSecurity adds together with a risk factor
FactorPoints(factor) ==
    CASE factor.msg = "Contract not verified" -> 20
      [] factor.msg = "Contract uses proxy pattern" -> 10
      [] factor.msg = "Contains n dangerous opcodes" -> 15 * factor.n
      [] factor.msg = "Uses delegatecall - high risk" -> 25
      [] factor.msg = "Contains selfdestruct - critical risk" -> 30
      [] factor.msg = "Source code has n potential issues" -> 5 * factor.n
      [] OTHER -> 0

RECURSIVE SumPoints(_)
SumPoints(factors) ==
    IF factors = <<>> THEN 0 ELSE FactorPoints(Head(factors)) + SumPoints(Tail(factors))

IsDefaultReport(report) == report.address = "Unknown"

====
